---- MODULE Spec2Model ----
(***************************************************************************)
(* Model of send_in_chunks.py: a file is read line by line into chunks of  *)
(* chunk_size lines, the chunks are sent by a multiprocessing.Pool of      *)
(* `workers` processes (one POST per chunk), and the per-chunk results are *)
(* summed into a final report.                                             *)
(*                                                                         *)
(* A Python str is a sequence of one-character strings; a Python tuple or  *)
(* list is a sequence; None and "no value yet" are the empty sequence.     *)
(***************************************************************************)
EXTENDS Integers, Sequences, FiniteSets, Bags

\* ------------------------------------------------------------------ bounds
MaxLines == 5
MaxChunkSize == 3
MaxWorkers == 2
MaxUnterminated == 2
MaxLineLen == 3
MaxLoad == 8

\* ------------------------------------------------------- string primitives

\* str.rstrip(c): s without its trailing run of the character c.
RECURSIVE RStrip(_, _)
RStrip(s, c) ==
    IF s # <<>> /\ s[Len(s)] = c THEN RStrip(SubSeq(s, 1, Len(s) - 1), c) ELSE s

\* The index of the last occurrence of the character c in s, 0 when absent.
RECURSIVE RFind(_, _)
RFind(s, c) ==
    IF s = <<>> THEN 0
    ELSE IF s[Len(s)] = c THEN Len(s)
    ELSE RFind(SubSeq(s, 1, Len(s) - 1), c)

\* str.rsplit(sep, 1) for a one-character sep: at most one split, at the
\* last occurrence of sep; <<s>> when sep does not occur.
RSplit1(s, sep) ==
    LET i == RFind(s, sep)
    IN  IF i = 0 THEN <<s>>
        ELSE <<SubSeq(s, 1, i - 1), SubSeq(s, i + 1, Len(s))>>

\* sep.join(strs)
RECURSIVE Join(_, _)
Join(strs, sep) ==
    IF strs = <<>> THEN <<>>
    ELSE IF Len(strs) = 1 THEN strs[1]
    ELSE strs[1] \o sep \o Join(Tail(strs), sep)

\* ------------------------------------------------------------ get_endpoint
QuestdbPath == <<"/", "w", "r", "i", "t", "e">>
InfluxdbPath ==
    <<"/", "a", "p", "i", "/", "v", "3", "/", "w", "r", "i", "t", "e", "_",
      "l", "p", "?", "d", "b", "=", "s", "e", "n", "s", "o", "r", "s", "&",
      "p", "r", "e", "c", "i", "s", "i", "o", "n", "=", "a", "u", "t", "o">>

\* The value standing for "raise ValueError(Unsupported backend)": no URL,
\* since every URL returned ends with one of the two paths above.
ValueError == <<"ValueError">>

\* Mutant: an unknown backend falls through to the questdb path.
get_endpoint_default_questdb(host, backend) ==
    IF backend = "influxdb" THEN RStrip(host, "/") \o InfluxdbPath
    ELSE RStrip(host, "/") \o QuestdbPath

\* Mutant: the host is used as given, trailing "/" included.
get_endpoint_no_strip(host, backend) ==
    IF backend = "questdb" THEN host \o QuestdbPath
    ELSE IF backend = "influxdb" THEN host \o InfluxdbPath
    ELSE ValueError

get_endpoint(host, backend) ==
    IF backend = "questdb" THEN RStrip(host, "/") \o QuestdbPath
    ELSE IF backend = "influxdb" THEN RStrip(host, "/") \o InfluxdbPath
    ELSE ValueError

\* -------------------------------------------------------------- send_chunk
\* Mutant: the body is the joined lines without the final newline.
Body_no_trailing_newline(chunk_lines) == Join(chunk_lines, <<"\n">>)

\* data = "\n".join(chunk_lines) + "\n"
Body(chunk_lines) == Join(chunk_lines, <<"\n">>) \o <<"\n">>

\* The request send_chunk posts for the argument tuple a = (lines, host, backend).
Request(a) ==
    [method |-> "POST", url |-> get_endpoint(a[2], a[3]), data |-> Body(a[1])]

\* The tuple send_chunk returns after a response, whatever its status.
ReturnValue(chunk_lines, elapsed) == <<Len(chunk_lines), elapsed>>

\* Mutant: the except branch re-raises instead of returning.
ExceptReturnValue_raise(chunk_lines, elapsed) == <<"Exception">>

\* Mutant: a failed send reports no rows.
ExceptReturnValue_zero_rows(chunk_lines, elapsed) == <<0, elapsed>>

\* The tuple send_chunk returns from its except branch.
ExceptReturnValue(chunk_lines, elapsed) == <<Len(chunk_lines), elapsed>>

\* An exception travels where a result would: a 1-tuple naming it, while a
\* result is a pair.
IsException(r) == Len(r) = 1

\* response.ok: raise_for_status raises for 400 <= status_code < 600 only
ResponseOk(status) == ~(400 <= status /\ status < 600)

\* Lines send_chunk prints.
SentLine(n, status) ==
    [stream |-> "stdout", text |-> "Sent chunk", rows |-> n, status |-> status]
ErrorLine == [stream |-> "stderr", text |-> "Error", rows |-> 0, status |-> 0]
ExceptionLine ==
    [stream |-> "stderr", text |-> "Exception while sending chunk",
     rows |-> 0, status |-> 0]
ReadErrorLine ==
    [stream |-> "stderr", text |-> "Error reading file", rows |-> 0, status |-> 0]

\* ------------------------------------------------------------------ inputs
\* Lines of the input file as the file iterator yields them, terminator kept.
SampleText ==
    << <<"a", " ", "1", "\n">>,
       <<"b", "\n">>,
       <<"c", " ", " ", "3", "\n">>,
       <<" ", "\n">>,
       <<"d", "\t", "5", " ", "\n">>,
       <<"\n">>,
       <<"e", " ", "f", " ", "7", "\n">>,
       <<"g", "\n">> >>

\* The file f without its final newline character: the last line has no
\* terminator, and when nothing else was on that line there is no such line.
Unterminated(f) ==
    IF f = <<>> THEN f
    ELSE LET last == f[Len(f)]
             cut == IF last[Len(last)] = "\n"
                    THEN SubSeq(last, 1, Len(last) - 1)
                    ELSE last
         IN  IF cut = <<>> THEN SubSeq(f, 1, Len(f) - 1)
             ELSE [f EXCEPT ![Len(f)] = cut]

Files ==
    {SubSeq(SampleText, 1, n) : n \in 0..MaxLines}
    \cup {Unterminated(SubSeq(SampleText, 1, n)) : n \in 1..MaxUnterminated}

Hosts == { <<"h", "/">> }
Choices == {"questdb", "influxdb"}
Backends == Choices \cup {"mysql"}
ChunkSizes == (-1)..MaxChunkSize
WorkerCounts == 0..MaxWorkers

\* The duration a request takes (durations are not told apart: every request
\* takes one unit), and the statuses a response may carry.
Latencies == {1}
OkStatuses == {204}
ErrorStatuses == {500}

VARIABLES
    args,         \* the parsed command line
    file,         \* the input file's lines
    pc,           \* where main (or a direct call of send_chunk) stands
    exit_status,  \* <<>> while running, <<code>> once the process has exited
    pos,          \* number of lines the loop has consumed
    chunk,        \* the chunk being filled
    chunks_args,  \* the list of (chunk_lines, host, backend) tuples
    taskqueue,    \* the pool's task batches not yet taken, each a list of chunk indices
    outqueue,     \* outcomes of batches handed over by the processes, not yet handled
    worker,       \* per pool process: the batch it holds and how far it is
    inflight,     \* indices of the chunks whose POST is waiting for its response
    requests,     \* per chunk, the requests issued for it so far
    results,      \* per chunk, the result tuple, <<>> until it is delivered
    number_left,  \* MapResult._number_left: batches whose outcome is still awaited
    map_error,    \* <<>>, or the first exception a batch ended with
    console,      \* bag of the lines printed by send_chunk and the read handler
    report        \* <<>> until the final report, then <<total_rows, total_request_time>>

vars == <<args, file, pc, exit_status, pos, chunk, chunks_args, taskqueue,
          outqueue, worker, inflight, requests, results, number_left, map_error,
          console, report>>

\* ------------------------------------------------------- the reading loop
\* line = line.rstrip("\n")
StripNewline(line) == RStrip(line, "\n")

\* parts = line.rsplit(' ', 1); if len(parts) == 2: line = parts[0]
OmitTimestamp(line) ==
    LET parts == RSplit1(line, " ")
    IN  IF Len(parts) = 2 THEN parts[1] ELSE line

\* What the loop body appends to the chunk for one line of the file.
TransformLine(line, omit_timestamp) ==
    IF omit_timestamp THEN OmitTimestamp(StripNewline(line))
    ELSE StripNewline(line)

\* Mutant: the chunk is cut one line late.
ChunkFull_off_by_one(c, chunk_size) == Len(c) = chunk_size + 1

\* if len(chunk) == args.chunk_size
ChunkFull(c, chunk_size) == Len(c) = chunk_size

\* Mutant: the trailing chunk is appended even when it is empty.
FlushChunk_always(cs, c, host, backend) == Append(cs, <<c, host, backend>>)

\* After the loop: if chunk: chunks_args.append((chunk, host, backend))
FlushChunk(cs, c, host, backend) ==
    IF c # <<>> THEN Append(cs, <<c, host, backend>>) ELSE cs

\* ------------------------------------------------------------ the pool
\* Pool._map_async: chunksize, extra = divmod(len(iterable), len(pool) * 4)
MapChunksize(n, processes) ==
    IF n = 0 THEN 0
    ELSE (n \div (processes * 4)) + (IF n % (processes * 4) # 0 THEN 1 ELSE 0)

\* Mutant: the batches are queued last batch first.
RECURSIVE TaskBatches_reversed(_, _, _)
TaskBatches_reversed(first, n, size) ==
    IF size = 0 \/ first > n THEN <<>>
    ELSE LET last == IF first + size - 1 < n THEN first + size - 1 ELSE n
         IN  TaskBatches_reversed(last + 1, n, size)
             \o <<[i \in 1..(last - first + 1) |-> first + i - 1]>>

\* Pool._get_tasks: the indices 1..n cut into consecutive batches of size.
RECURSIVE TaskBatches(_, _, _)
TaskBatches(first, n, size) ==
    IF size = 0 \/ first > n THEN <<>>
    ELSE LET last == IF first + size - 1 < n THEN first + size - 1 ELSE n
         IN  <<[i \in 1..(last - first + 1) |-> first + i - 1]>>
             \o TaskBatches(last + 1, n, size)

\* Mutant: one outcome is awaited per item, not per batch.
NumberLeft_items(length, chunksize) == length

\* MapResult.__init__: the number of batches whose outcome is awaited.
NumberLeft(length, chunksize) ==
    IF chunksize <= 0 THEN 0
    ELSE (length \div chunksize) + (IF length % chunksize # 0 THEN 1 ELSE 0)

\* Mutant: mapstar stays on the first item of its batch.
NextIndex_first(batch, done) == batch[1]

\* mapstar: the item of the batch that follows the `done` ones.
NextIndex(batch, done) == batch[Len(done) + 1]

\* A process that holds no batch and has printed nothing: the batch it holds,
\* the results of the calls of the batch that have returned, whether it is in
\* requests.post, whether the error line is still to be printed, the value
\* its call is about to return (<<>> outside that moment), and the lines it
\* has printed to stdout.
IdleWorker ==
    [batch |-> <<>>, done |-> <<>>, posting |-> FALSE, error_due |-> FALSE,
     ret |-> <<>>, stdout |-> EmptyBag]

\* Sum of the k-th component of the tuples of a list.
RECURSIVE Total(_, _)
Total(rs, k) == IF rs = <<>> THEN 0 ELSE rs[1][k] + Total(Tail(rs), k)

\* for rows, req_time in results: total_rows += rows; total_request_time += req_time
Aggregate(rs) == <<Total(rs, 1), Total(rs, 2)>>

\* ----------------------------------------------------------------- Init
InitMain ==
    /\ args \in [host : Hosts, chunk_size : ChunkSizes, workers : WorkerCounts,
                 backend : Backends, omit_timestamp : BOOLEAN]
    /\ file \in Files
    /\ args.workers * Len(file) <= MaxLoad
    /\ pc = "parse"
    /\ exit_status = <<>>
    /\ pos = 0
    /\ chunk = <<>>
    /\ chunks_args = <<>>
    /\ taskqueue = <<>>
    /\ outqueue = <<>>
    /\ worker = <<>>
    /\ inflight = {}
    /\ requests = <<>>
    /\ results = <<>>
    /\ number_left = 0
    /\ map_error = <<>>
    /\ console = EmptyBag
    /\ report = <<>>

\* ------------------------------------------------------------------ main
Exit(code) ==
    /\ pc' = "exit"
    /\ exit_status' = <<code>>

\* parser.parse_args(): --backend must be one of the choices, or argparse
\* prints its usage and exits with status 2; --chunk-size and --workers are
\* any int.
ParseArgs ==
    /\ pc = "parse"
    /\ IF args.backend \in Choices
       THEN pc' = "open" /\ UNCHANGED exit_status
       ELSE Exit(2)
    /\ UNCHANGED <<args, file, pos, chunk, chunks_args, taskqueue, outqueue, worker,
                   inflight, requests, results, number_left, map_error,
                   console, report>>

\* open(args.file) succeeds; chunk = []
OpenFile ==
    /\ pc = "open"
    /\ pc' = "read"
    /\ chunk' = <<>>
    /\ UNCHANGED <<args, file, exit_status, pos, chunks_args, taskqueue, outqueue, worker,
                   inflight, requests, results, number_left, map_error,
                   console, report>>

\* Mutant: the handler prints the error and main goes on to the pool.
ReadError_no_exit ==
    /\ pc \in {"open", "read"}
    /\ console' = console (+) SetToBag({ReadErrorLine})
    /\ pc' = "pool"
    /\ UNCHANGED <<args, file, exit_status, pos, chunk, chunks_args, taskqueue, outqueue,
                   worker, inflight, requests, results, number_left, map_error,
                   report>>

\* open or the iteration raises: print the error, sys.exit(1)
ReadError ==
    /\ pc \in {"open", "read"}
    /\ console' = console (+) SetToBag({ReadErrorLine})
    /\ Exit(1)
    /\ UNCHANGED <<args, file, pos, chunk, chunks_args, taskqueue, outqueue, worker,
                   inflight, requests, results, number_left, map_error, report>>

\* Mutant: a line that is empty is not put in the chunk.
AppendLine_skip_empty(c, line) == IF line = <<>> THEN c ELSE Append(c, line)

\* chunk.append(line)
AppendLine(c, line) == Append(c, line)

\* One iteration of `for line in f`.
ReadLine ==
    /\ pc = "read"
    /\ pos < Len(file)
    /\ pos' = pos + 1
    /\ LET c == AppendLine(chunk,
                           TransformLine(file[pos + 1], args.omit_timestamp))
       IN  IF ChunkFull(c, args.chunk_size)
           THEN /\ chunks_args' = Append(chunks_args, <<c, args.host, args.backend>>)
                /\ chunk' = <<>>
           ELSE /\ chunk' = c
                /\ UNCHANGED chunks_args
    /\ UNCHANGED <<args, file, pc, exit_status, taskqueue, outqueue, worker, inflight,
                   requests, results, number_left, map_error, console, report>>

\* Mutant: the loop may end before the last line has been read.
EndOfFile_any_time ==
    /\ pc = "read"
    /\ chunks_args' = FlushChunk(chunks_args, chunk, args.host, args.backend)
    /\ pc' = "pool"
    /\ UNCHANGED <<args, file, exit_status, pos, chunk, taskqueue, outqueue, worker,
                   inflight, requests, results, number_left, map_error,
                   console, report>>

\* The loop ends and the partial chunk is flushed.
EndOfFile ==
    /\ pc = "read"
    /\ pos = Len(file)
    /\ chunks_args' = FlushChunk(chunks_args, chunk, args.host, args.backend)
    /\ pc' = "pool"
    /\ UNCHANGED <<args, file, exit_status, pos, chunk, taskqueue, outqueue, worker,
                   inflight, requests, results, number_left, map_error,
                   console, report>>

\* multiprocessing.Pool(processes=args.workers): fewer than one process
\* raises ValueError, which nothing catches.
CreatePool ==
    /\ pc = "pool"
    /\ IF args.workers < 1
       THEN Exit(1) /\ UNCHANGED worker
       ELSE /\ worker' = [w \in 1..args.workers |-> IdleWorker]
            /\ pc' = "map"
            /\ UNCHANGED exit_status
    /\ UNCHANGED <<args, file, pos, chunk, chunks_args, taskqueue, outqueue, inflight,
                   requests, results, number_left, map_error, console, report>>

\* pool.map(send_chunk_wrapper, chunks_args) queues the task batches and
\* waits on a MapResult of len(chunks_args) empty slots.
MapSubmit ==
    /\ pc = "map"
    /\ LET chunksize == MapChunksize(Len(chunks_args), Len(worker))
       IN  /\ taskqueue' = TaskBatches(1, Len(chunks_args), chunksize)
           /\ number_left' = NumberLeft(Len(chunks_args), chunksize)
    /\ requests' = [i \in 1..Len(chunks_args) |-> <<>>]
    /\ results' = [i \in 1..Len(chunks_args) |-> <<>>]
    /\ map_error' = <<>>
    /\ outqueue' = <<>>
    /\ pc' = "wait"
    /\ UNCHANGED <<args, file, exit_status, pos, chunk, chunks_args, worker,
                   inflight, console, report>>

\* ------------------------------------------------------ the pool's workers
\* Mutant: a process takes a batch while it still holds one.
CanTake_always(w) == TRUE

\* A pool process asks the task queue for work only when it holds no batch.
CanTake(w) == worker[w].batch = <<>>

\* The chunk index the worker's send_chunk_wrapper call is on.
Current(w) == NextIndex(worker[w].batch, worker[w].done)

\* Where process w is in a call of send_chunk: not in one, in requests.post,
\* before the print of the error line, or before its return.
InCall(w) ==
    IF worker[w].posting THEN "post"
    ELSE IF worker[w].error_due THEN "error"
    ELSE IF worker[w].ret # <<>> THEN "return"
    ELSE "no"

\* A pool process has finished the batch it held: it puts the outcome on the
\* result queue (the finished calls' results, or the exception that ended the
\* batch) and holds no batch any more.
HandOver(w, ok, value) ==
    /\ outqueue' = Append(outqueue,
                          [batch |-> worker[w].batch, ok |-> ok, value |-> value])
    /\ worker' = [worker EXCEPT ![w] = [IdleWorker EXCEPT !.stdout = worker[w].stdout]]

\* Worker w calls send_chunk_wrapper on the next chunk of its batch: either
\* get_endpoint raises, which ends the batch, or the request leaves
\* (requests.post is entered).
StartCall(w) ==
    LET i == Current(w)
        req == Request(chunks_args[i])
    IN  IF req.url = ValueError
        THEN /\ HandOver(w, FALSE, ValueError)
             /\ UNCHANGED <<requests, inflight>>
        ELSE /\ worker' = [worker EXCEPT ![w].posting = TRUE]
             /\ requests' = [requests EXCEPT ![i] = Append(@, req)]
             /\ inflight' = inflight \cup {i}
             /\ UNCHANGED outqueue

\* An idle pool process takes the next batch off the task queue.
WorkerGet(w) ==
    /\ pc = "wait"
    /\ CanTake(w)
    /\ taskqueue # <<>>
    /\ taskqueue' = Tail(taskqueue)
    /\ worker' = [worker EXCEPT ![w] =
                    [IdleWorker EXCEPT !.batch = Head(taskqueue),
                                       !.stdout = worker[w].stdout]]
    /\ UNCHANGED <<args, file, pc, exit_status, pos, chunk, chunks_args,
                   outqueue, inflight, requests, results, number_left,
                   map_error, console, report>>

\* The worker goes on to the next chunk of the batch it holds.
SendChunkPost(w) ==
    /\ pc = "wait"
    /\ worker[w].batch # <<>>
    /\ InCall(w) = "no"
    /\ StartCall(w)
    /\ UNCHANGED <<args, file, pc, exit_status, pos, chunk, chunks_args,
                   taskqueue, results, number_left, map_error, console, report>>

\* The results list with a finished batch's results filled in (MapResult._set).
Deliver(rs, batch, done) ==
    [j \in 1..Len(rs) |->
        IF \E k \in 1..Len(batch) : batch[k] = j
        THEN done[CHOOSE k \in 1..Len(batch) : batch[k] = j]
        ELSE rs[j]]

\* requests.post has returned or raised in process w: the call prints `line`
\* and is left with `ret` to return; after an error status the error line is
\* still to be printed. A line printed to stdout is also in the process's
\* stdout buffer.
AfterPost(w, line, ret, error_due) ==
    /\ inflight' = inflight \ {Current(w)}
    /\ console' = console (+) SetToBag({line})
    /\ worker' = [worker EXCEPT
                    ![w].posting = FALSE,
                    ![w].ret = ret,
                    ![w].error_due = error_due,
                    ![w].stdout = IF line.stream = "stdout"
                                  THEN @ (+) SetToBag({line}) ELSE @]

\* The response arrives with a success status: the status line is printed.
SendChunkOk(w) ==
    /\ pc \in {"wait", "posting"}
    /\ worker[w].posting
    /\ \E status \in OkStatuses, elapsed \in Latencies :
         LET lines == chunks_args[Current(w)][1]
         IN  /\ ResponseOk(status)
             /\ AfterPost(w, SentLine(Len(lines), status),
                          ReturnValue(lines, elapsed), FALSE)
    /\ UNCHANGED <<args, file, pc, exit_status, pos, chunk, chunks_args,
                   taskqueue, outqueue, requests, results, number_left,
                   map_error, report>>

\* The response arrives with an error status: the status line is printed,
\* `if not response.ok` will print the error line.
SendChunkHttpError(w) ==
    /\ pc \in {"wait", "posting"}
    /\ worker[w].posting
    /\ \E status \in ErrorStatuses, elapsed \in Latencies :
         LET lines == chunks_args[Current(w)][1]
         IN  /\ ~ResponseOk(status)
             /\ AfterPost(w, SentLine(Len(lines), status),
                          ReturnValue(lines, elapsed), TRUE)
    /\ UNCHANGED <<args, file, pc, exit_status, pos, chunk, chunks_args,
                   taskqueue, outqueue, requests, results, number_left,
                   map_error, report>>

\* print(f"Error: {response.text}", file=sys.stderr)
SendChunkErrorLine(w) ==
    /\ pc \in {"wait", "posting"}
    /\ worker[w].error_due
    /\ console' = console (+) SetToBag({ErrorLine})
    /\ worker' = [worker EXCEPT ![w].error_due = FALSE]
    /\ UNCHANGED <<args, file, pc, exit_status, pos, chunk, chunks_args,
                   taskqueue, outqueue, inflight, requests, results,
                   number_left, map_error, report>>

\* requests.post raises: the except branch prints the exception line.
SendChunkException(w) ==
    /\ pc \in {"wait", "posting"}
    /\ worker[w].posting
    /\ \E elapsed \in Latencies :
         LET lines == chunks_args[Current(w)][1]
         IN  AfterPost(w, ExceptionLine, ExceptReturnValue(lines, elapsed), FALSE)
    /\ UNCHANGED <<args, file, pc, exit_status, pos, chunk, chunks_args,
                   taskqueue, outqueue, requests, results, number_left,
                   map_error, report>>

\* send_chunk ends in a pool process with the value it was left with (a
\* tuple, or an exception): the process keeps it and goes on with the batch,
\* or hands the finished batch over.
WorkerCollect(w, result) ==
    LET done == Append(worker[w].done, result)
    IN  IF IsException(result)
        THEN HandOver(w, FALSE, result)
        ELSE IF Len(done) = Len(worker[w].batch)
        THEN HandOver(w, TRUE, done)
        ELSE /\ worker' = [worker EXCEPT ![w].done = done, ![w].ret = <<>>]
             /\ UNCHANGED outqueue

\* return (len(chunk_lines), elapsed), in a pool process.
SendChunkReturn(w) ==
    /\ pc = "wait"
    /\ InCall(w) = "return"
    /\ WorkerCollect(w, worker[w].ret)
    /\ UNCHANGED <<args, file, pc, exit_status, pos, chunk, chunks_args,
                   taskqueue, inflight, requests, results, number_left,
                   map_error, console, report>>

\* ------------------------------------------- the parent's result handler
\* MapResult._set for a batch that ended with exception e: the first
\* exception is kept and the batch counts as finished.
FailBatch(e) ==
    /\ map_error' = IF map_error = <<>> THEN e ELSE map_error
    /\ number_left' = number_left - 1
    /\ UNCHANGED results

\* The result handler takes the next outcome off the result queue and
\* MapResult._set records it: a batch's results are stored unless an earlier
\* batch failed.
HandleResult ==
    /\ pc = "wait"
    /\ outqueue # <<>>
    /\ outqueue' = Tail(outqueue)
    /\ LET item == Head(outqueue)
       IN  IF item.ok
           THEN /\ results' = IF map_error = <<>>
                              THEN Deliver(results, item.batch, item.value)
                              ELSE results
                /\ number_left' = number_left - 1
                /\ UNCHANGED map_error
           ELSE FailBatch(item.value)
    /\ UNCHANGED <<args, file, pc, exit_status, pos, chunk, chunks_args,
                   taskqueue, worker, inflight, requests, console, report>>

\* Mutant: the map is taken to be over once the task queue is drained.
MapReady_queue_drained == taskqueue = <<>>

\* MapResult is ready once every batch has reported back.
MapReady == number_left = 0

\* The lines held in the stdout buffers of the processes ws.
RECURSIVE Unwritten(_, _)
Unwritten(wk, ws) ==
    IF ws = {} THEN EmptyBag
    ELSE LET w == CHOOSE v \in ws : TRUE
         IN  wk[w].stdout (+) Unwritten(wk, ws \ {w})

\* pool.map returns the results, or raises the first exception, which main
\* does not catch; leaving the `with` block terminates the pool's processes.
\* A process killed before it has written its stdout buffer (stdout is
\* block-buffered unless it is a terminal) takes the lines it printed there
\* with it; a process that exits first, or whose stdout is not buffered,
\* loses nothing. Lines on stderr are never held back.
MapReturn ==
    /\ pc = "wait"
    /\ MapReady
    /\ worker' = <<>>
    /\ \E killed \in SUBSET DOMAIN worker :
         console' = console (-) Unwritten(worker, killed)
    /\ IF map_error = <<>>
       THEN pc' = "aggregate" /\ UNCHANGED exit_status
       ELSE Exit(1)
    /\ UNCHANGED <<args, file, pos, chunk, chunks_args, taskqueue, outqueue, inflight,
                   requests, results, number_left, map_error, report>>

\* The summing loop and the final prints; main returns.
Report ==
    /\ pc = "aggregate"
    /\ report' = Aggregate(results)
    /\ pc' = "done"
    /\ exit_status' = <<0>>
    /\ UNCHANGED <<args, file, pos, chunk, chunks_args, taskqueue, outqueue, worker,
                   inflight, requests, results, number_left, map_error, console>>

\* ------------------------------------------- send_chunk called on its own
DirectChunks ==
    { <<>>, << <<"a">> >>, << <<"a", " ", "1">>, <<"b">> >> }
ExampleHost == <<"h", "t", "t", "p", ":", "/", "/", "h", ":", "9">>
DirectHosts ==
    Hosts \cup { <<"h">>, <<"h", "/", "/">>, ExampleHost, ExampleHost \o <<"/">> }

\* send_chunk(chunk_lines, host, backend) is about to run, outside any pool.
InitSendChunk ==
    /\ args = <<>>
    /\ file = <<>>
    /\ pc = "send_chunk"
    /\ exit_status = <<>>
    /\ pos = 0
    /\ chunk = <<>>
    /\ chunks_args \in {<<a>> : a \in DirectChunks \X DirectHosts \X Backends}
    /\ taskqueue = <<>>
    /\ outqueue = <<>>
    /\ worker = <<[IdleWorker EXCEPT !.batch = <<1>>]>>
    /\ inflight = {}
    /\ requests = << <<>> >>
    /\ results = << <<>> >>
    /\ number_left = 0
    /\ map_error = <<>>
    /\ console = EmptyBag
    /\ report = <<>>

\* get_endpoint raises; the call is outside the try, so send_chunk raises.
DirectRaise ==
    /\ pc = "send_chunk"
    /\ Request(chunks_args[1]).url = ValueError
    /\ pc' = "raised"
    /\ UNCHANGED <<args, file, exit_status, pos, chunk, chunks_args, taskqueue,
                   outqueue, worker, inflight, requests, results, number_left,
                   map_error, console, report>>

\* requests.post is entered.
DirectPost ==
    /\ pc = "send_chunk"
    /\ Request(chunks_args[1]).url # ValueError
    /\ StartCall(1)
    /\ pc' = "posting"
    /\ UNCHANGED <<args, file, exit_status, pos, chunk, chunks_args, taskqueue,
                   results, number_left, map_error, console, report>>

\* send_chunk ends: it returns its tuple or raises.
DirectReturn ==
    /\ pc = "posting"
    /\ InCall(1) = "return"
    /\ IF IsException(worker[1].ret)
       THEN pc' = "raised" /\ UNCHANGED results
       ELSE pc' = "returned" /\ results' = <<worker[1].ret>>
    /\ worker' = [worker EXCEPT ![1].ret = <<>>]
    /\ UNCHANGED <<args, file, exit_status, pos, chunk, chunks_args, taskqueue,
                   outqueue, inflight, requests, number_left, map_error,
                   console, report>>

\* ------------------------------------------------------------------ Spec
Init == InitMain \/ InitSendChunk

\* The steps of the dispatch phase and the report.
Dispatch ==
    \/ MapSubmit
    \/ \E w \in DOMAIN worker : WorkerGet(w)
    \/ \E w \in DOMAIN worker : SendChunkPost(w)
    \/ \E w \in DOMAIN worker : SendChunkOk(w)
    \/ \E w \in DOMAIN worker : SendChunkHttpError(w)
    \/ \E w \in DOMAIN worker : SendChunkErrorLine(w)
    \/ \E w \in DOMAIN worker : SendChunkException(w)
    \/ \E w \in DOMAIN worker : SendChunkReturn(w)
    \/ HandleResult
    \/ MapReturn
    \/ Report
    \/ DirectReturn

Next ==
    \/ ParseArgs
    \/ OpenFile
    \/ ReadError
    \/ ReadLine
    \/ EndOfFile
    \/ CreatePool
    \/ MapSubmit
    \/ \E w \in DOMAIN worker : WorkerGet(w)
    \/ \E w \in DOMAIN worker : SendChunkPost(w)
    \/ \E w \in DOMAIN worker : SendChunkOk(w)
    \/ \E w \in DOMAIN worker : SendChunkHttpError(w)
    \/ \E w \in DOMAIN worker : SendChunkErrorLine(w)
    \/ \E w \in DOMAIN worker : SendChunkException(w)
    \/ \E w \in DOMAIN worker : SendChunkReturn(w)
    \/ HandleResult
    \/ MapReturn
    \/ Report
    \/ DirectRaise
    \/ DirectPost
    \/ DirectReturn

Spec == Init /\ [][Next]_vars

\* Every process that can take a step eventually takes one, and every
\* request eventually gets its response or its exception.
FairSpec == Spec /\ WF_vars(Dispatch)

\* ------------------------------------- the reading loop on one-line files
\* Every string over the alphabet of at most n characters.
RECURSIVE Strings(_, _)
Strings(alphabet, n) ==
    IF n = 0 THEN {<<>>}
    ELSE LET shorter == Strings(alphabet, n - 1)
         IN  shorter \cup {Append(t, ch) : t \in shorter, ch \in alphabet}

LineAlphabet == {"a", " ", "\t"}
ExampleLine == <<"a", " ", "b", " ", "c", " ", "1", "2", "3">>

\* One-line files: the line with its terminator, or without when it is the
\* unterminated last line of the file (which is then not empty).
OneLineFiles ==
    LET ls == Strings(LineAlphabet, MaxLineLen) \cup {ExampleLine}
    IN  {<<Append(l, "\n")>> : l \in ls} \cup {<<l>> : l \in ls \ {<<>>}}

InitRead ==
    /\ args \in [host : Hosts, chunk_size : {1, 2}, workers : {1},
                 backend : {"questdb"}, omit_timestamp : BOOLEAN]
    /\ file \in OneLineFiles
    /\ pc = "parse"
    /\ exit_status = <<>>
    /\ pos = 0
    /\ chunk = <<>>
    /\ chunks_args = <<>>
    /\ taskqueue = <<>>
    /\ outqueue = <<>>
    /\ worker = <<>>
    /\ inflight = {}
    /\ requests = <<>>
    /\ results = <<>>
    /\ number_left = 0
    /\ map_error = <<>>
    /\ console = EmptyBag
    /\ report = <<>>

NextRead ==
    \/ ParseArgs
    \/ OpenFile
    \/ ReadError
    \/ ReadLine
    \/ EndOfFile

\* main up to the end of the reading loop.
SpecRead == InitRead /\ [][NextRead]_vars

\* ================================================================ claims
\* Positions of main after the reading loop has ended normally.
AfterRead == pc \in {"pool", "map", "wait", "aggregate", "done"}

\* Positions of a direct call of send_chunk.
DirectCall == pc \in {"send_chunk", "posting", "returned", "raised"}

\* The lines of a list of argument tuples, chunk after chunk.
RECURSIVE Flatten(_)
Flatten(cs) == IF cs = <<>> THEN <<>> ELSE cs[1][1] \o Flatten(Tail(cs))

CeilDiv(a, b) == (a + b - 1) \div b

\* A line of the file up to its terminator.
Content(line) ==
    IF line # <<>> /\ line[Len(line)] = "\n" THEN SubSeq(line, 1, Len(line) - 1)
    ELSE line

IsPrefix(s, t) == Len(s) <= Len(t) /\ s = SubSeq(t, 1, Len(s))

\* The lines read so far, as they must appear in the chunks: the line's
\* content, or with omit_timestamp a prefix of it.
LinesMatch(ls, n) ==
    /\ Len(ls) = n
    /\ \A i \in 1..n :
         IF args.omit_timestamp THEN IsPrefix(ls[i], Content(file[i]))
         ELSE ls[i] = Content(file[i])

\* C1: for every file of L lines and every chunk size N > 0 the loop builds
\* exactly ceil(L / N) chunks (none for L = 0), and the chunks' lines taken
\* in order are the file's lines, one entry per line, in file order; while
\* the loop runs, the chunks plus the chunk being filled hold the lines read.
C1_ChunksPartitionInput ==
    /\ (pc = "read" /\ args.chunk_size > 0)
          => LinesMatch(Flatten(chunks_args) \o chunk, pos)
    /\ (AfterRead /\ args.chunk_size > 0)
          => /\ Len(chunks_args) = CeilDiv(Len(file), args.chunk_size)
             /\ LinesMatch(Flatten(chunks_args), Len(file))

C1_Witness ==
    /\ pc = "pool"
    /\ args.chunk_size = 2
    /\ Len(file) = 5
    /\ Len(chunks_args) = 3
    /\ ~args.omit_timestamp

\* C2: for N > 0 every chunk but the last has exactly N lines and the last
\* has N lines when N divides L and L mod N lines otherwise; no chunk is
\* empty, and a chunk is appended during the loop only when it has N lines.
C2_ChunkSizes ==
    LET n == args.chunk_size
        k == Len(chunks_args)
    IN  /\ (pc = "read" /\ n > 0)
              => /\ \A i \in 1..k : Len(chunks_args[i][1]) = n
                 /\ Len(chunk) < n
        /\ (AfterRead /\ n > 0)
              => /\ \A i \in 1..k : Len(chunks_args[i][1]) >= 1
                 /\ \A i \in 1..(k - 1) : Len(chunks_args[i][1]) = n
                 /\ k > 0 => Len(chunks_args[k][1]) =
                                (IF Len(file) % n = 0 THEN n ELSE Len(file) % n)

C2_Witness ==
    /\ pc = "pool"
    /\ args.chunk_size = 2
    /\ Len(chunks_args) = 2
    /\ Len(chunks_args[1][1]) = 2
    /\ Len(chunks_args[2][1]) = 1

\* C3: with W >= 1 workers and K chunks, under every interleaving, no chunk
\* is ever requested twice, and when the map has returned there are exactly
\* K results, the i-th being the result of chunk i, whose one request
\* carried chunk i.
C3_EveryChunkOnce ==
    /\ pc \in {"wait", "aggregate", "done"}
          => /\ Len(requests) = Len(chunks_args)
             /\ \A i \in 1..Len(requests) : Len(requests[i]) <= 1
    /\ pc \in {"aggregate", "done"}
          => /\ Len(results) = Len(chunks_args)
             /\ \A i \in 1..Len(chunks_args) :
                  /\ results[i] # <<>>
                  /\ results[i][1] = Len(chunks_args[i][1])
                  /\ requests[i] = <<Request(chunks_args[i])>>

C3_Witness ==
    /\ pc = "done"
    /\ args.workers = 2
    /\ Len(chunks_args) = 3
    /\ Len(results) = 3

\* C4: while the pool works, at most W requests are in flight, and the
\* requests in flight are exactly the ones the posting workers are waiting
\* on: a worker has one call open and takes nothing else until it returns.
C4_AtMostWInFlight ==
    /\ pc = "wait"
          => /\ Cardinality(inflight) <= args.workers
             /\ inflight = {Current(w) : w \in {v \in DOMAIN worker : worker[v].posting}}
             /\ \A v, w \in DOMAIN worker :
                  (worker[v].posting /\ worker[w].posting /\ v # w)
                      => Current(v) # Current(w)
    /\ pc \in {"parse", "open", "read", "pool", "map", "aggregate", "done"}
          => inflight = {}

C4_Witness ==
    /\ pc = "wait"
    /\ args.workers = 2
    /\ Cardinality(inflight) = 2
    /\ taskqueue # <<>>

\* Number of failure lines (exception, or error status) on the console.
Failures(b) == CopiesIn(ExceptionLine, b) + CopiesIn(ErrorLine, b)

C5_Completion ==
    /\ pc \in {"wait", "aggregate", "done"} => map_error = <<>>
    /\ \A q \in 1..Len(outqueue) : outqueue[q].ok
    /\ pc \in {"aggregate", "done"}
          => \A i \in 1..Len(chunks_args) :
               Len(requests[i]) = 1 /\ results[i] # <<>>
    /\ pc = "exit" => requests = <<>> /\ console \in {EmptyBag, SetToBag({ReadErrorLine})}

\* A step that prints a failure line is a step of one process inside its
\* call: the call is left with a tuple of the chunk's row count to return,
\* and nothing else moves.
C5_FailureStep ==
    Failures(console') > Failures(console)
       => \E w \in DOMAIN worker :
            /\ pc \in {"wait", "posting"}
            /\ pc' = pc
            /\ worker'[w].ret # <<>>
            /\ ~IsException(worker'[w].ret)
            /\ worker'[w].ret[1] = Len(chunks_args[Current(w)][1])
            /\ worker'[w].batch = worker[w].batch
            /\ worker'[w].done = worker[w].done
            /\ \A v \in DOMAIN worker \ {w} : worker'[v] = worker[v]
            /\ inflight' \in {inflight, inflight \ {Current(w)}}
            /\ UNCHANGED <<taskqueue, outqueue, requests, results, number_left,
                           map_error>>

\* C5: a send that fails (an exception of requests.post, or an error status)
\* still ends with a result of the chunk's row count, and the step changes
\* nothing else: the task queue, the requests of the other workers and the
\* results already there are untouched and the map goes on; so the map never
\* ends with an exception, and when it returns every chunk has been
\* requested once and has its result.
C5_FailureIsolation == [](C5_Completion) /\ [][C5_FailureStep]_vars

C5_Witness ==
    /\ pc = "done"
    /\ Len(chunks_args) = 3
    /\ CopiesIn(ExceptionLine, console) = 1
    /\ CopiesIn(ErrorLine, console) = 1
    /\ \A i \in 1..3 : results[i] # <<>>

\* C6: the map is a barrier: once main is past it (the wall-clock end is
\* taken, the summing runs, the report is printed) the task queue is empty,
\* no request is in flight, and every chunk has been sent and has its result.
C6_JoinBarrier ==
    (pc \in {"aggregate", "done"} \/ report # <<>>)
       => /\ taskqueue = <<>>
          /\ inflight = {}
          /\ number_left = 0
          /\ Len(results) = Len(chunks_args)
          /\ \A i \in 1..Len(chunks_args) :
               requests[i] # <<>> /\ results[i] # <<>>

C6_Witness ==
    /\ pc = "aggregate"
    /\ args.workers = 2
    /\ Len(chunks_args) = 4
    /\ report = <<>>

\* C7: under fair scheduling of the pool (FairSpec), once the pool exists
\* the run reaches its end with the report printed and a result for every
\* chunk, whatever the outcomes of the sends.
C7_ReportEventually ==
    (pc \in {"map", "wait"})
       ~> (/\ pc = "done"
           /\ report # <<>>
           /\ \A i \in 1..Len(chunks_args) : results[i] # <<>>)

\* Every send failed, and the report is there.
C7_Witness ==
    /\ pc = "done"
    /\ report # <<>>
    /\ Len(chunks_args) = 3
    /\ Failures(console) = 3
    /\ BagCardinality(console) = 3

\* The report printed for a run without chunks.
C7_WitnessNoChunks ==
    /\ pc = "done"
    /\ report # <<>>
    /\ chunks_args = <<>>

\* C8: the total of the report is the sum of the row counts of the results,
\* a failed send counting its rows like any other; for N > 0 it is the
\* number of lines of the file.
C8_TotalRows ==
    pc = "done"
       => /\ report[1] = Total(results, 1)
          /\ report[1] = Len(Flatten(chunks_args))
          /\ args.chunk_size > 0 => report[1] = Len(file)

C8_Witness ==
    /\ pc = "done"
    /\ args.chunk_size = 2
    /\ Len(file) = 5
    /\ report[1] = 5
    /\ CopiesIn(ExceptionLine, console) >= 1
    /\ CopiesIn(ErrorLine, console) >= 1

\* C9 (as claimed): with N <= 0 the run is rejected before a line is read
\* into a chunk: no chunk is being filled, none is built, none is sent.
C9_NonPositiveChunkSizeRejected ==
    (~DirectCall /\ args.chunk_size <= 0)
       => /\ chunk = <<>>
          /\ chunks_args = <<>>
          /\ \A i \in 1..Len(requests) : requests[i] = <<>>
          /\ report = <<>>

\* The backend the run, or the direct call, was given.
GivenBackend == IF DirectCall THEN chunks_args[1][3] ELSE args.backend

\* C10: with a backend other than questdb and influxdb nothing is ever sent
\* and no chunk result exists: main stops in parse_args with no file read,
\* and a direct send_chunk ends by raising, with no request and no result.
C10_UnknownBackend ==
    GivenBackend \notin Choices
       => /\ inflight = {}
          /\ \A i \in 1..Len(requests) : requests[i] = <<>>
          /\ \A i \in 1..Len(results) : results[i] = <<>>
          /\ console = EmptyBag
          /\ report = <<>>
          /\ IF DirectCall THEN pc \in {"send_chunk", "raised"}
             ELSE /\ pc \in {"parse", "exit"}
                  /\ pos = 0
                  /\ chunks_args = <<>>
                  /\ pc = "exit" => exit_status = <<2>>

C10_Witness ==
    /\ pc = "raised"
    /\ chunks_args[1][3] = "mysql"
    /\ chunks_args[1][1] # <<>>

\* C11: once the read handler has printed its error (open failed, or the
\* iteration failed after any number of lines and chunks) the process has
\* exited with status 1, and nothing was or will be sent: no pool, no
\* request, no result, no report.
C11_ReadFailureAborts ==
    CopiesIn(ReadErrorLine, console) > 0
       => /\ pc = "exit"
          /\ exit_status = <<1>>
          /\ worker = <<>>
          /\ taskqueue = <<>>
          /\ requests = <<>>
          /\ results = <<>>
          /\ inflight = {}
          /\ report = <<>>
          /\ console = SetToBag({ReadErrorLine})

\* The read failed after a chunk had been assembled and with a chunk half full.
C11_Witness ==
    /\ pc = "exit"
    /\ CopiesIn(ReadErrorLine, console) = 1
    /\ Len(chunks_args) >= 1
    /\ chunk # <<>>
    /\ pos < Len(file)

\* The chunks whose request has been issued.
Issued == {i \in 1..Len(requests) : requests[i] # <<>>}

\* C12: with one worker at most one request is in flight, the chunks
\* requested so far are the first ones in chunk order, and every one of them
\* but the latest has had its response: chunk i+1 is requested only after
\* the request of chunk i has returned.
C12_SequentialWithOneWorker ==
    (pc \in {"wait", "aggregate", "done"} /\ args.workers = 1)
       => /\ Cardinality(inflight) <= 1
          /\ \A i \in Issued : \A j \in 1..(i - 1) : j \in Issued /\ j \notin inflight
          /\ inflight \subseteq Issued

C12_Witness ==
    /\ pc = "wait"
    /\ args.workers = 1
    /\ Len(chunks_args) = 5
    /\ inflight = {4}
    /\ Issued = {1, 2, 3, 4}

\* The tuples send_chunk returns for these lines when the send succeeds.
SuccessResults(lines) == {ReturnValue(lines, e) : e \in Latencies}

\* C13 (as claimed): the result of a send that failed differs from the
\* result of a successful send of the same chunk.
C13_ResultMarksFailure ==
    (pc = "returned" /\ Failures(console) > 0)
       => results[1] \notin SuccessResults(chunks_args[1][1])

\* --- C14: what the claim says the transformation gives
IsSpace(ch) == ch \in {" ", "\t"}
HasSpace(s) == \E i \in 1..Len(s) : IsSpace(s[i])
HasToken(s) == \E i \in 1..Len(s) : ~IsSpace(s[i])

\* The position of the last character of the final token.
TokenEnd(s) == CHOOSE i \in 1..Len(s) :
                 ~IsSpace(s[i]) /\ \A j \in (i + 1)..Len(s) : IsSpace(s[j])
\* The position of its first character.
TokenStart(s) == CHOOSE i \in 1..TokenEnd(s) :
                   /\ \A j \in i..TokenEnd(s) : ~IsSpace(s[j])
                   /\ i > 1 => IsSpace(s[i - 1])
\* The position where the whitespace before the final token starts.
SpaceStart(s) == CHOOSE i \in 1..TokenStart(s) :
                   /\ \A j \in i..(TokenStart(s) - 1) : IsSpace(s[j])
                   /\ i > 1 => ~IsSpace(s[i - 1])

\* The lines the claim allows for a line with whitespace and a token: the
\* final token is gone, with the whitespace before it (read as the one
\* character or as the whole run), and what follows the token kept or not.
ClaimedOmit(s) ==
    LET rest == SubSeq(s, TokenEnd(s) + 1, Len(s))
        byRun == SubSeq(s, 1, SpaceStart(s) - 1)
        byOne == SubSeq(s, 1, TokenStart(s) - 2)
    IN  {byRun, byOne, byRun \o rest, byOne \o rest}

\* C14 (as claimed): with omit_timestamp the line that enters the chunk is
\* the line without its final whitespace-delimited token and the whitespace
\* before it, and a line without whitespace enters unchanged.
C14_OmitRemovesLastToken ==
    (pc = "pool" /\ args.omit_timestamp)
       => LET s == Content(file[1])
              out == Flatten(chunks_args)
          IN  /\ Len(out) = 1
              /\ ~HasSpace(s) => out[1] = s
              /\ (HasSpace(s) /\ HasToken(s)) => out[1] \in ClaimedOmit(s)

\* The claim's own example does come out as it says.
C14_ExampleHolds ==
    (pc = "pool" /\ args.omit_timestamp /\ Content(file[1]) = ExampleLine)
       => Flatten(chunks_args) = << <<"a", " ", "b", " ", "c">> >>

\* --- C15
\* The path the claim gives for a backend.
ClaimedPath(backend) ==
    IF backend = "questdb" THEN <<"/", "w", "r", "i", "t", "e">>
    ELSE <<"/", "a", "p", "i", "/", "v", "3", "/", "w", "r", "i", "t", "e", "_",
           "l", "p", "?", "d", "b", "=", "s", "e", "n", "s", "o", "r", "s", "&",
           "p", "r", "e", "c", "i", "s", "i", "o", "n", "=", "a", "u", "t", "o">>

\* base is host without its trailing separators.
Normalizes(host, base) ==
    /\ IsPrefix(base, host)
    /\ \A i \in (Len(base) + 1)..Len(host) : host[i] = "/"
    /\ base # <<>> => base[Len(base)] # "/"

\* The request URL of a direct call that has posted.
PostedUrl == requests[1][1].url

\* C15: for questdb and influxdb the URL send_chunk posts to is the host
\* without its trailing "/" followed by the backend's path, so a host and the
\* same host with a "/" appended resolve to the same URL, and "http://h:9/"
\* with questdb gives "http://h:9/write".
C15_EndpointNormalizesHost ==
    (DirectCall /\ requests[1] # <<>>)
       => LET host == chunks_args[1][2]
              backend == chunks_args[1][3]
              path == ClaimedPath(backend)
              base == SubSeq(PostedUrl, 1, Len(PostedUrl) - Len(path))
          IN  /\ backend \in Choices
              /\ Len(PostedUrl) >= Len(path)
              /\ PostedUrl = base \o path
              /\ Normalizes(host, base)
              /\ PostedUrl = get_endpoint(host \o <<"/">>, backend)
              /\ (host = ExampleHost \o <<"/">> /\ backend = "questdb")
                    => PostedUrl = ExampleHost \o <<"/", "w", "r", "i", "t", "e">>

C15_Witness ==
    /\ pc = "posting"
    /\ chunks_args[1][2] = ExampleHost \o <<"/">>
    /\ chunks_args[1][3] = "questdb"
    /\ PostedUrl = ExampleHost \o <<"/", "w", "r", "i", "t", "e">>

\* --- C16
\* s split at every newline character.
RECURSIVE SplitNewline(_)
SplitNewline(s) ==
    IF \A i \in 1..Len(s) : s[i] # "\n" THEN <<s>>
    ELSE LET k == CHOOSE i \in 1..Len(s) :
                    s[i] = "\n" /\ \A j \in 1..(i - 1) : s[j] # "\n"
         IN  <<SubSeq(s, 1, k - 1)>> \o SplitNewline(SubSeq(s, k + 1, Len(s)))

\* req is the request the claim describes for the argument tuple a.
ClaimedRequest(req, a) ==
    /\ req.method = "POST"
    /\ req.url = get_endpoint(a[2], a[3])
    /\ req.data # <<>>
    /\ req.data[Len(req.data)] = "\n"
    /\ IF a[1] = <<>> THEN req.data = <<"\n">>
       ELSE SplitNewline(SubSeq(req.data, 1, Len(req.data) - 1)) = a[1]

\* C16: a chunk never has more than one request, every request is a POST to
\* the URL of the chunk's host and backend whose body ends with a newline and,
\* without it, splits at newlines into the chunk's lines; when a call of
\* send_chunk has returned, and when a run with K chunks has returned from the
\* map, each chunk has exactly one request, K in all.
C16_OneRequestPerChunk ==
    /\ \A i \in 1..Len(requests) :
          /\ Len(requests[i]) <= 1
          /\ \A k \in 1..Len(requests[i]) :
                ClaimedRequest(requests[i][k], chunks_args[i])
    /\ (pc \in {"returned", "aggregate", "done"})
          => /\ Len(requests) = Len(chunks_args)
             /\ \A i \in 1..Len(chunks_args) : Len(requests[i]) = 1

C16_Witness ==
    /\ pc = "done"
    /\ Len(chunks_args) = 3
    /\ \A i \in 1..3 : Len(requests[i]) = 1
    /\ requests[1][1].data = <<"a", " ", "1", "\n", "b", "\n">>

\* --- C17
\* The whole file has been read and every line is in a chunk, transformed.
ReadComplete ==
    /\ pos = Len(file)
    /\ Flatten(chunks_args)
         = [i \in 1..Len(file) |-> TransformLine(file[i], args.omit_timestamp)]

\* A step of the dispatch phase leaves the file, the read position, the chunk
\* being built and the chunk list alone.
C17_DispatchStep ==
    pc \in {"map", "wait"}
       => (file' = file /\ pos' = pos /\ chunk' = chunk /\ chunks_args' = chunks_args)

\* C17: in a run of main, whenever a pool worker exists, a task or an outcome
\* is queued or a request has been issued, the whole file has been read and
\* all its lines are in the chunk list; and no step of the dispatch phase
\* reads the file or changes the chunk list.
C17_ReadBeforeDispatch ==
    /\ []((/\ args # <<>>
           /\ \/ worker # <<>>
              \/ taskqueue # <<>>
              \/ outqueue # <<>>
              \/ inflight # {}
              \/ Issued # {}) => ReadComplete)
    /\ [][C17_DispatchStep]_vars

C17_Witness ==
    /\ pc = "wait"
    /\ Len(file) = 5
    /\ args.omit_timestamp
    /\ Len(chunks_args) = 3
    /\ inflight # {}
    /\ ReadComplete

\* --- C18
\* The chunk and the position in it where the chunker puts line i of the
\* file when the chunk size is n, whatever the line is.
ChunkOf(i, n) == ((i - 1) \div n) + 1
PlaceOf(i, n) == ((i - 1) % n) + 1

\* C18: for N > 0, with the transformation on as with it off, the file's L
\* lines make ceil(L / N) chunks, line i is the line at place
\* ((i - 1) mod N) + 1 of chunk ((i - 1) div N) + 1 and no chunk holds anything
\* else, so the shape of the chunk list does not depend on the option; the
\* line found there is the file's line, transformed when the option is on,
\* also when that leaves it empty.
C18_TransformKeepsShape ==
    (AfterRead /\ args.chunk_size > 0)
       => LET n == args.chunk_size
              L == Len(file)
          IN  /\ Len(chunks_args) = CeilDiv(L, n)
              /\ \A k \in 1..Len(chunks_args) :
                    Len(chunks_args[k][1])
                       = Cardinality({i \in 1..L : ChunkOf(i, n) = k})
              /\ \A i \in 1..L :
                    chunks_args[ChunkOf(i, n)][1][PlaceOf(i, n)]
                       = IF args.omit_timestamp
                         THEN OmitTimestamp(Content(file[i]))
                         ELSE Content(file[i])

C18_Witness ==
    /\ pc = "pool"
    /\ args.omit_timestamp
    /\ args.chunk_size = 3
    /\ Len(file) = 5
    /\ chunks_args[2][1] = << <<>>, <<"d", "\t", "5">> >>

====
